---- MODULE Spec2Model ----
(***************************************************************************)
(* State-machine model of the browser audio player                         *)
(*   src/src/scripts/main.js        (class Player)                         *)
(*   src/src/scripts/visualizer.js  (class AudioVisualizer, the part the   *)
(*                                   player drives: connectAudio, show)    *)
(* Every handler of the program is one action: it runs to completion on    *)
(* the event loop, from one suspension point to the next.                  *)
(***************************************************************************)
EXTENDS Integers, Sequences, FiniteSets, TLC

\* ------------------------------------------------------------------ bounds
MaxTracks == 4

MaxVisTracks == 2

MaxStartupTracks == 3

MaxRenderTracks == 2

MaxPending == 2

MaxTicks == 102

MaxDeviceTracks == 2

MaxFiles == 2

MaxFileOps == 4

\* --------------------------------------------------------------- constants
\* main.js:235  if (this.preloadCache.size > 3)
CacheCapacity == 3

\* null / undefined / '' of the source (a falsy reference)
Null == 0

\* NaN, the value of (i + 1) % 0; every comparison with it is false
NaN == -1000

\* Absolute URLs are the relative reference plus the document base: the src
\* getter of a media element returns the resolved URL, never the raw value.
DocumentUrl == 100

\* visualizer.js:19  this.maxHistory = 100
maxHistory == 100

\* visualizer.js:128  const sampleSize = 32
sampleSize == 32

VARIABLES
    dom,                \* the page: which elements and scripts exist
    server,             \* the document served at data/tracks.json
    pc,                 \* where init() is suspended
    fetch,              \* loadTracks: "pending", "ok" or "failed"
    imgIdx,             \* preloadCoverImages: track whose image is in flight
    loadedImages,       \* preloadCoverImages: processed counter
    listeners,          \* handlers attached by init()
    tracks,             \* Player.tracks
    currentTrackIndex,  \* Player.currentTrackIndex
    isPlaying,          \* Player.isPlaying
    preloadCache,       \* Player.preloadCache, keys in insertion order
    imageCache,         \* Player.imageCache, its keys
    audio,              \* Player.audio, the single media element
    visualizer,         \* Player.visualizer and its audio graph
    ui,                 \* the slots loadTrack writes (title, theme)
    last,               \* the handler that ran last and how it ended
    watcher             \* scripts/watch-music.js: the two directories, the
                        \* watcher's undelivered events, running conversions

vars == <<dom, server, pc, fetch, imgIdx, loadedImages, listeners, tracks, currentTrackIndex,
          isPlaying, preloadCache, imageCache, audio, visualizer, ui, last,
          watcher>>

\* ------------------------------------------------------------ environment
\* A track descriptor of data/tracks.json; audio and image are optional.
Track(i, hasAudio, hasImage) ==
    [id |-> i,
     audio |-> IF hasAudio THEN i ELSE Null,
     image |-> IF hasImage THEN i ELSE Null]

\* Manifests of up to n tracks: any subset of the tracks lacks audio, any
\* subset of the first m tracks carries a cover image.
Manifests(maxN, m) ==
    UNION { { [i \in 1..n |-> Track(i, i \in A, i \in I)] :
                A \in SUBSET (1..n), I \in SUBSET (1..(IF m < n THEN m ELSE n)) } :
            n \in 0..maxN }

\* HTMLMediaElement.src getter: the attribute resolved against the document
ResolveUrl(u) == IF u >= DocumentUrl THEN u ELSE DocumentUrl + u

\* A source the media pipeline can play: the URL of some track's audio file
Playable(src) == src > DocumentUrl

\* The media element load algorithm, run by load() and by every src change:
\* playback stops, position and duration reset, queued media events dropped.
MediaLoad(a, src) ==
    [src |-> src, advancing |-> FALSE, readyMeta |-> FALSE,
     currentTime |-> 0, endedQueued |-> 0]

\* Duration of the media file at an absolute URL, in seconds
DurationOf(src) == 200

\* ------------------------------------------------------------ Player state
\* The Player object as a record, so that one method can call another.
Player ==
    [tracks |-> tracks, currentTrackIndex |-> currentTrackIndex,
     isPlaying |-> isPlaying, preloadCache |-> preloadCache,
     audio |-> audio, visualizer |-> visualizer, ui |-> ui,
     threw |-> FALSE, calls |-> 0, hit |-> FALSE]

\* What a handler leaves behind: the object's fields, and in last the name
\* of the handler, its index argument (loadTrack), whether it threw, how many
\* times it entered nextTrack() and whether loadTrack used preloaded audio.
NoArg == "-"

Store(p, op, arg) ==
    /\ tracks' = p.tracks
    /\ currentTrackIndex' = p.currentTrackIndex
    /\ isPlaying' = p.isPlaying
    /\ preloadCache' = p.preloadCache
    /\ audio' = p.audio
    /\ visualizer' = p.visualizer
    /\ ui' = p.ui
    /\ last' = [op |-> op, arg |-> arg, threw |-> p.threw, calls |-> p.calls,
                 hit |-> p.hit]

Event(op) ==
    [op |-> op, arg |-> NoArg, threw |-> FALSE, calls |-> 0, hit |-> FALSE]

InCache(cache, key) == \E k \in 1..Len(cache) : cache[k] = key

\* ---------------------------------------------------------- Player methods
\* pause that flips the flag and leaves the media element running
pauseFlagOnly(p) == [p EXCEPT !.isPlaying = FALSE]

pause(p) ==
    [p EXCEPT !.audio.advancing = FALSE, !.isPlaying = FALSE]

play(p) ==
    IF p.audio.src # Null
    THEN LET ctx == p.visualizer.audioContext
             v1 == IF p.visualizer.exists /\ ctx = "suspended"
                   THEN [p.visualizer EXCEPT !.resumePending = TRUE]
                   ELSE p.visualizer
             a1 == IF Playable(p.audio.src)
                   THEN [p.audio EXCEPT
                           !.advancing = TRUE,
                           !.currentTime =
                               IF p.audio.readyMeta /\ @ = DurationOf(p.audio.src)
                               THEN 0 ELSE @]
                   ELSE p.audio
         IN [p EXCEPT !.visualizer = v1, !.audio = a1, !.isPlaying = TRUE]
    ELSE p

togglePlayPause(p) == IF p.isPlaying THEN pause(p) ELSE play(p)

\* preloadTrack without the clean-up of old entries
preloadTrackNoEvict(p, index) ==
    IF index # NaN /\ (index < 0 \/ index >= Len(p.tracks)) THEN p
    ELSE IF index = NaN THEN [p EXCEPT !.threw = TRUE]
    ELSE LET track == p.tracks[index + 1] IN
         IF track.audio = Null \/ InCache(p.preloadCache, track.audio) THEN p
         ELSE [p EXCEPT !.preloadCache = Append(@, track.audio)]

\* preloadTrack whose clean-up deletes the newest key instead of the first
preloadTrackEvictNewest(p, index) ==
    IF index # NaN /\ (index < 0 \/ index >= Len(p.tracks)) THEN p
    ELSE IF index = NaN THEN [p EXCEPT !.threw = TRUE]
    ELSE LET track == p.tracks[index + 1] IN
         IF track.audio = Null \/ InCache(p.preloadCache, track.audio) THEN p
         ELSE LET c1 == Append(p.preloadCache, track.audio)
              IN [p EXCEPT !.preloadCache =
                      IF Len(c1) > CacheCapacity
                      THEN SubSeq(c1, 1, CacheCapacity) ELSE c1]

\* preloadTrack without the test for a key already present
preloadTrackPush(p, index) ==
    IF index # NaN /\ (index < 0 \/ index >= Len(p.tracks)) THEN p
    ELSE IF index = NaN THEN [p EXCEPT !.threw = TRUE]
    ELSE LET track == p.tracks[index + 1] IN
         IF track.audio = Null THEN p
         ELSE LET c1 == Append(p.preloadCache, track.audio)
                  c2 == IF Len(c1) > CacheCapacity THEN Tail(c1) ELSE c1
              IN [p EXCEPT !.preloadCache = c2]

preloadTrack(p, index) ==
    IF index # NaN /\ (index < 0 \/ index >= Len(p.tracks)) THEN p
    ELSE IF index = NaN
    THEN \* tracks[NaN] is undefined: reading track.audio throws
         [p EXCEPT !.threw = TRUE]
    ELSE LET track == p.tracks[index + 1] IN
         IF track.audio = Null THEN p
         ELSE IF InCache(p.preloadCache, track.audio) THEN p
         ELSE LET c1 == Append(p.preloadCache, track.audio)
                  c2 == IF Len(c1) > CacheCapacity THEN Tail(c1) ELSE c1
              IN [p EXCEPT !.preloadCache = c2]

\* preloadAdjacentTracks that forgets the previous track
preloadAdjacentTracksNextOnly(p) ==
    LET n == Len(p.tracks)
        cur == p.currentTrackIndex
        nextIndex == IF n = 0 \/ cur = NaN THEN NaN ELSE (cur + 1) % n
    IN preloadTrack(p, nextIndex)

preloadAdjacentTracks(p) ==
    LET n == Len(p.tracks)
        cur == p.currentTrackIndex
        nextIndex == IF n = 0 \/ cur = NaN THEN NaN ELSE (cur + 1) % n
        p1 == preloadTrack(p, nextIndex)
        prevIndex == IF n = 0 \/ cur = NaN THEN NaN ELSE (cur - 1 + n) % n
    IN IF p1.threw THEN p1 ELSE preloadTrack(p1, prevIndex)

\* Trail layers drawn per tick; visualizer.js:144  Math.min(length, 5)
trailLayers == 5

\* updateColors that keeps the palette it has
updateColorsKeep(v, colors) == [v EXCEPT !.sinceTheme = 0]

\* visualizer.updateColors(colors): the palette is replaced.  sinceTheme
\* counts the frames pushed since this call, up to trailLayers.
updateColors(v, colors) == [v EXCEPT !.colors = colors, !.sinceTheme = 0]

\* connectAudio that keeps its audio context in a local: the field stays null
connectAudioForgetContext(v, outcome) ==
    IF v.audioContext # "null" THEN v
    ELSE CASE outcome = "noContext" -> v
           [] outcome = "noTap" -> [v EXCEPT !.analyser = TRUE]
           [] OTHER ->
                [v EXCEPT !.analyser = TRUE, !.taps = @ + 1, !.dataArray = TRUE]

\* connectAudio that allocates the data array before it creates the tap
connectAudioDataFirst(v, outcome) ==
    IF v.audioContext # "null" THEN v
    ELSE CASE outcome = "noContext" -> v
           [] outcome = "noTap" ->
                [v EXCEPT !.audioContext = "suspended", !.analyser = TRUE,
                          !.dataArray = TRUE]
           [] outcome = "suspended" ->
                [v EXCEPT !.audioContext = "suspended", !.analyser = TRUE,
                          !.taps = @ + 1, !.dataArray = TRUE]
           [] OTHER ->
                [v EXCEPT !.audioContext = "running", !.analyser = TRUE,
                          !.taps = @ + 1, !.dataArray = TRUE]

\* visualizer.connectAudio(audio); outcome is how far the try block got
connectAudio(v, outcome) ==
    IF v.audioContext # "null" THEN v
    ELSE CASE outcome = "noContext" -> v
           [] outcome = "noTap" ->
                [v EXCEPT !.audioContext = "suspended", !.analyser = TRUE]
           [] outcome = "suspended" ->
                [v EXCEPT !.audioContext = "suspended", !.analyser = TRUE,
                          !.taps = @ + 1, !.dataArray = TRUE]
           [] OTHER ->
                [v EXCEPT !.audioContext = "running", !.analyser = TRUE,
                          !.taps = @ + 1, !.dataArray = TRUE]

\* loadTrack with the hint dropped: the track is bound but never played
loadTrackNoAutoplay(p, index, autoplay, outcome) ==
    IF index # NaN /\ (index < 0 \/ index >= Len(p.tracks)) THEN p
    ELSE IF index = NaN
    THEN [p EXCEPT !.currentTrackIndex = NaN, !.threw = TRUE]
    ELSE
    LET track == p.tracks[index + 1]
        p1 == pause([p EXCEPT !.currentTrackIndex = index])
        p2 == [p1 EXCEPT !.ui = [title |-> track.id, theme |-> track.id],
                         !.visualizer =
                             IF p1.visualizer.exists
                             THEN updateColors(@, track.id) ELSE @]
        p3 == IF track.audio # Null
              THEN LET v1 == IF p2.visualizer.exists
                                /\ p2.visualizer.audioContext = "null"
                             THEN connectAudio(p2.visualizer, outcome)
                             ELSE p2.visualizer
                       hit == InCache(p2.preloadCache, track.audio)
                   IN [p2 EXCEPT !.visualizer = v1, !.hit = hit,
                                 !.audio = MediaLoad(p2.audio,
                                                     ResolveUrl(track.audio))]
              ELSE [p2 EXCEPT !.audio = MediaLoad(p2.audio, ResolveUrl(Null))]
    IN preloadAdjacentTracks(p3)

\* loadTrack with pause() moved above the range check
loadTrackPauseFirst(p, index, autoplay, outcome) ==
    IF index # NaN /\ (index < 0 \/ index >= Len(p.tracks)) THEN pause(p)
    ELSE IF index = NaN
    THEN [p EXCEPT !.currentTrackIndex = NaN, !.threw = TRUE]
    ELSE
    LET track == p.tracks[index + 1]
        p1 == pause([p EXCEPT !.currentTrackIndex = index])
        p2 == [p1 EXCEPT !.ui = [title |-> track.id, theme |-> track.id],
                         !.visualizer =
                             IF p1.visualizer.exists
                             THEN updateColors(@, track.id) ELSE @]
        p3 == IF track.audio # Null
              THEN LET v1 == IF p2.visualizer.exists
                                /\ p2.visualizer.audioContext = "null"
                             THEN connectAudio(p2.visualizer, outcome)
                             ELSE p2.visualizer
                       hit == InCache(p2.preloadCache, track.audio)
                       p2a == [p2 EXCEPT !.visualizer = v1, !.hit = hit,
                                 !.audio = MediaLoad(p2.audio,
                                                     ResolveUrl(track.audio))]
                   IN IF autoplay THEN play(p2a) ELSE p2a
              ELSE [p2 EXCEPT !.audio = MediaLoad(p2.audio, ResolveUrl(Null))]
    IN preloadAdjacentTracks(p3)

\* loadTrack without "Stop current audio": the flag is never cleared
loadTrackNoPause(p, index, autoplay, outcome) ==
    IF index # NaN /\ (index < 0 \/ index >= Len(p.tracks)) THEN p
    ELSE IF index = NaN
    THEN [p EXCEPT !.currentTrackIndex = NaN, !.threw = TRUE]
    ELSE
    LET track == p.tracks[index + 1]
        p1 == [p EXCEPT !.currentTrackIndex = index]
        p2 == [p1 EXCEPT !.ui = [title |-> track.id, theme |-> track.id],
                         !.visualizer =
                             IF p1.visualizer.exists
                             THEN updateColors(@, track.id) ELSE @]
        p3 == IF track.audio # Null
              THEN LET v1 == IF p2.visualizer.exists
                                /\ p2.visualizer.audioContext = "null"
                             THEN connectAudio(p2.visualizer, outcome)
                             ELSE p2.visualizer
                       hit == InCache(p2.preloadCache, track.audio)
                       p2a == [p2 EXCEPT !.visualizer = v1, !.hit = hit,
                                 !.audio = MediaLoad(p2.audio,
                                                     ResolveUrl(track.audio))]
                   IN IF autoplay THEN play(p2a) ELSE p2a
              ELSE [p2 EXCEPT !.audio = MediaLoad(p2.audio, ResolveUrl(Null))]
    IN preloadAdjacentTracks(p3)

\* loadTrack without the range check: any index is stored, and reading the
\* title of a track that is not there throws
loadTrackUnchecked(p, index, autoplay, outcome) ==
    IF index = NaN \/ index < 0 \/ index >= Len(p.tracks)
    THEN [p EXCEPT !.currentTrackIndex = index, !.threw = TRUE]
    ELSE
    LET track == p.tracks[index + 1]
        p1 == pause([p EXCEPT !.currentTrackIndex = index])
        p2 == [p1 EXCEPT !.ui = [title |-> track.id, theme |-> track.id],
                         !.visualizer =
                             IF p1.visualizer.exists
                             THEN updateColors(@, track.id) ELSE @]
        p3 == IF track.audio # Null
              THEN LET v1 == IF p2.visualizer.exists
                                /\ p2.visualizer.audioContext = "null"
                             THEN connectAudio(p2.visualizer, outcome)
                             ELSE p2.visualizer
                       hit == InCache(p2.preloadCache, track.audio)
                       p2a == [p2 EXCEPT !.visualizer = v1, !.hit = hit,
                                 !.audio = MediaLoad(p2.audio,
                                                     ResolveUrl(track.audio))]
                   IN IF autoplay THEN play(p2a) ELSE p2a
              ELSE [p2 EXCEPT !.audio = MediaLoad(p2.audio, ResolveUrl(Null))]
    IN preloadAdjacentTracks(p3)

\* loadTrack that on a cache hit binds the source of the oldest cache entry
loadTrackHitFirst(p, index, autoplay, outcome) ==
    IF index # NaN /\ (index < 0 \/ index >= Len(p.tracks)) THEN p
    ELSE IF index = NaN
    THEN
         [p EXCEPT !.currentTrackIndex = NaN, !.threw = TRUE]
    ELSE
    LET track == p.tracks[index + 1]
        p1 == pause([p EXCEPT !.currentTrackIndex = index])
        p2 == [p1 EXCEPT !.ui = [title |-> track.id, theme |-> track.id],
                         !.visualizer =
                             IF p1.visualizer.exists
                             THEN updateColors(@, track.id) ELSE @]
        p3 == IF track.audio # Null
              THEN LET v1 == IF p2.visualizer.exists
                                /\ p2.visualizer.audioContext = "null"
                             THEN connectAudio(p2.visualizer, outcome)
                             ELSE p2.visualizer
                       hit == InCache(p2.preloadCache, track.audio)
                       src == IF hit
                              THEN ResolveUrl(ResolveUrl(p2.preloadCache[1]))
                              ELSE ResolveUrl(track.audio)
                       p2a == [p2 EXCEPT !.visualizer = v1, !.hit = hit,
                                         !.audio = MediaLoad(p2.audio, src)]
                   IN IF autoplay THEN play(p2a) ELSE p2a
              ELSE [p2 EXCEPT !.audio = MediaLoad(p2.audio, ResolveUrl(Null))]
    IN preloadAdjacentTracks(p3)

loadTrack(p, index, autoplay, outcome) ==
    IF index # NaN /\ (index < 0 \/ index >= Len(p.tracks)) THEN p
    ELSE IF index = NaN
    THEN \* tracks[NaN] is undefined: reading track.title throws
         [p EXCEPT !.currentTrackIndex = NaN, !.threw = TRUE]
    ELSE
    LET track == p.tracks[index + 1]
        p1 == pause([p EXCEPT !.currentTrackIndex = index])
        p2 == [p1 EXCEPT !.ui = [title |-> track.id, theme |-> track.id],
                         !.visualizer =
                             IF p1.visualizer.exists
                             THEN updateColors(@, track.id) ELSE @]
        p3 == IF track.audio # Null
              THEN LET v1 == IF p2.visualizer.exists
                                /\ p2.visualizer.audioContext = "null"
                             THEN connectAudio(p2.visualizer, outcome)
                             ELSE p2.visualizer
                       hit == InCache(p2.preloadCache, track.audio)
                       src == IF hit
                              THEN ResolveUrl(ResolveUrl(track.audio))
                              ELSE ResolveUrl(track.audio)
                       p2a == [p2 EXCEPT !.visualizer = v1, !.hit = hit,
                                         !.audio = MediaLoad(p2.audio, src)]
                   IN IF autoplay THEN play(p2a) ELSE p2a
              ELSE [p2 EXCEPT !.audio = MediaLoad(p2.audio, ResolveUrl(Null))]
    IN preloadAdjacentTracks(p3)

\* nextTrack without the wrap: the index is not reduced modulo the count
nextTrackNoWrap(p, outcome) ==
    LET n == Len(p.tracks)
        cur == p.currentTrackIndex
        nextIndex == IF n = 0 \/ cur = NaN THEN NaN ELSE cur + 1
    IN loadTrack([p EXCEPT !.calls = @ + 1], nextIndex, p.isPlaying, outcome)

nextTrack(p, outcome) ==
    LET n == Len(p.tracks)
        cur == p.currentTrackIndex
        nextIndex == IF n = 0 \/ cur = NaN THEN NaN ELSE (cur + 1) % n
    IN loadTrack([p EXCEPT !.calls = @ + 1], nextIndex, p.isPlaying, outcome)

\* previousTrack that never passes the playing state on
previousTrackPaused(p, outcome) ==
    LET n == Len(p.tracks)
        cur == p.currentTrackIndex
        prevIndex == IF n = 0 \/ cur = NaN THEN NaN ELSE (cur - 1 + n) % n
    IN loadTrack(p, prevIndex, FALSE, outcome)

previousTrack(p, outcome) ==
    LET n == Len(p.tracks)
        cur == p.currentTrackIndex
        prevIndex == IF n = 0 \/ cur = NaN THEN NaN ELSE (cur - 1 + n) % n
    IN loadTrack(p, prevIndex, p.isPlaying, outcome)

\* seek without the test of the duration: an unknown duration counts as 0
seekNoGuard(p, percent) ==
    [p EXCEPT !.audio.currentTime = (percent * DurationOf(p.audio.src)) \div 100]

seek(p, percent) ==
    IF p.audio.readyMeta
    THEN [p EXCEPT !.audio.currentTime = (percent * DurationOf(p.audio.src)) \div 100]
    ELSE p

\* ----------------------------------------------------------------- startup
\* The AudioVisualizer object.  pending counts the callbacks in the
\* animation-frame queue; animationId is "null", "pending" (the id of a
\* callback still in the queue) or "stale" (of one that ran or was
\* cancelled); surface is what the canvas shows and layers the trail layers
\* on it, front first, each with the tick of its frame and the palette it
\* was stroked with; waveformHistory holds one entry per frame, its number
\* of samples and the tick that sampled it; ticks counts the audio-driven
\* ticks; draws and pushes count what the handler that ran last drew and
\* pushed.
NoVisualizer ==
    [exists |-> FALSE, isActive |-> FALSE, audioContext |-> "null",
     analyser |-> FALSE, dataArray |-> FALSE, taps |-> 0,
     resumePending |-> FALSE, colors |-> Null,
     animationId |-> "null", pending |-> 0, surface |-> "cleared",
     waveformHistory |-> << >>, draws |-> 0, pushes |-> 0,
     ticks |-> 0, layers |-> << >>, sinceTheme |-> 0]

clearCanvas(v) == [v EXCEPT !.surface = "cleared", !.layers = << >>]

Min(a, b) == IF a < b THEN a ELSE b

\* The trail layers of one tick: the first trailLayers frames of the history,
\* each stroked with a gradient of the palette stored at that moment
TrailOf(history, colors) ==
    [h \in 1..Min(Len(history), trailLayers) |->
        [tick |-> history[h].tick, theme |-> colors]]

\* drawPulseLine that pushes the new frame to the back of the history
drawPulseLineAppend(v) ==
    LET frame == [samples |-> sampleSize, tick |-> v.ticks + 1]
        h1 == v.waveformHistory \o <<frame>>
        h2 == IF Len(h1) > maxHistory THEN SubSeq(h1, 1, Len(h1) - 1) ELSE h1
    IN [v EXCEPT !.waveformHistory = h2, !.surface = "pulse",
                 !.layers = TrailOf(h2, v.colors),
                 !.ticks = @ + 1, !.sinceTheme = Min(@ + 1, trailLayers),
                 !.draws = @ + 1, !.pushes = @ + 1]

\* The part of drawPulseLine that has state: the frame of 32 samples goes to
\* the front of the history, the oldest frame is dropped past maxHistory
drawPulseLine(v) ==
    LET frame == [samples |-> sampleSize, tick |-> v.ticks + 1]
        h1 == <<frame>> \o v.waveformHistory
        h2 == IF Len(h1) > maxHistory THEN SubSeq(h1, 1, Len(h1) - 1) ELSE h1
    IN [v EXCEPT !.waveformHistory = h2, !.surface = "pulse",
                 !.layers = TrailOf(h2, v.colors),
                 !.ticks = @ + 1, !.sinceTheme = Min(@ + 1, trailLayers),
                 !.draws = @ + 1, !.pushes = @ + 1]

drawIdlePulse(v) == [v EXCEPT !.surface = "idle", !.draws = @ + 1]

\* animate without the test of isActive
animateAlways(v) ==
    LET v1 == clearCanvas([v EXCEPT !.animationId = "pending", !.pending = @ + 1])
    IN IF v1.analyser /\ v1.dataArray THEN drawPulseLine(v1)
       ELSE drawIdlePulse(v1)

animate(v) ==
    IF ~v.isActive THEN v
    ELSE LET v1 == clearCanvas([v EXCEPT !.animationId = "pending",
                                         !.pending = @ + 1])
         IN IF v1.analyser /\ v1.dataArray THEN drawPulseLine(v1)
            ELSE drawIdlePulse(v1)

\* if (this.animationId) cancelAnimationFrame(this.animationId)
cancelAnimationFrame(v) ==
    IF v.animationId = "pending"
    THEN [v EXCEPT !.animationId = "stale", !.pending = @ - 1]
    ELSE v

show(v) == animate([v EXCEPT !.isActive = TRUE])

hide(v) == clearCanvas(cancelAnimationFrame([v EXCEPT !.isActive = FALSE]))

toggle(v) == IF v.isActive THEN hide(v) ELSE show(v)

dispose(v) == clearCanvas(cancelAnimationFrame(v))

\* AudioVisualizer constructor followed by show(), as initVisualizer runs them
initVisualizer(p) ==
    IF dom.visualizer = "noScript" THEN p
    ELSE IF dom.visualizer = "noCanvas"
    THEN \* show() reads this.canvas.style of a null canvas
         [p EXCEPT !.visualizer.exists = TRUE, !.visualizer.isActive = TRUE,
                   !.threw = TRUE]
    ELSE [p EXCEPT !.visualizer = show([@ EXCEPT !.exists = TRUE])]

\* The for loop of preloadCoverImages from track k (1-based) on: tracks with
\* no image are counted at once, the first track with an image is awaited.
\* The loop without the await: an image in flight does not hold it up
CountNoAwait(trs, k, loaded) ==
    [idx |-> Len(trs) + 1,
     loaded |-> loaded + Cardinality({i \in k..Len(trs) : trs[i].image = Null})]

\* The loop that passes a track without image and does not count it
RECURSIVE CountUntilImageSkipFree(_, _, _)
CountUntilImageSkipFree(trs, k, loaded) ==
    IF k > Len(trs) THEN [idx |-> k, loaded |-> loaded]
    ELSE IF trs[k].image = Null THEN CountUntilImageSkipFree(trs, k + 1, loaded)
    ELSE [idx |-> k, loaded |-> loaded]

RECURSIVE CountUntilImage(_, _, _)
CountUntilImage(trs, k, loaded) ==
    IF k > Len(trs) THEN [idx |-> k, loaded |-> loaded]
    ELSE IF trs[k].image = Null THEN CountUntilImage(trs, k + 1, loaded + 1)
    ELSE [idx |-> k, loaded |-> loaded]

\* setupAudioEvents run twice: two 'ended' listeners
setupAudioEventsTwice(l) == [l EXCEPT !.ended = @ + 2]

\* setupAudioEvents: one more 'ended' listener on the element
setupAudioEvents(l) == [l EXCEPT !.ended = @ + 1]

\* setupEventListeners: buttons, progress track and keyboard are wired, and
\* the drag flag of the progress track starts false
setupEventListeners(l) == [l EXCEPT !.input = TRUE, !.isDragging = FALSE]

\* init() that starts playback of the first track by itself
CompleteInitAutoplay(p, outcome) ==
    LET p1 == initVisualizer(p) IN
    IF p1.threw
    THEN /\ Store(p1, "init", NoArg)
         /\ pc' = "crashed"
         /\ UNCHANGED listeners
    ELSE LET p2 == IF Len(p1.tracks) > 0
                   THEN preloadAdjacentTracks(loadTrack(p1, 0, TRUE, outcome))
                   ELSE p1
         IN /\ Store(p2, "init", NoArg)
            /\ pc' = "done"
            /\ listeners' = setupEventListeners(setupAudioEvents(listeners))

\* init() from the return of preloadCoverImages to its end
CompleteInit(p, outcome) ==
    LET p1 == initVisualizer(p) IN
    IF p1.threw
    THEN /\ Store(p1, "init", NoArg)
         /\ pc' = "crashed"
         /\ UNCHANGED listeners
    ELSE LET p2 == IF Len(p1.tracks) > 0
                   THEN preloadAdjacentTracks(loadTrack(p1, 0, FALSE, outcome))
                   ELSE p1
         IN /\ Store(p2, "init", NoArg)
            /\ pc' = "done"
            /\ listeners' = setupEventListeners(setupAudioEvents(listeners))

\* init() from the resolution of the manifest fetch to its next suspension
AfterLoadTracks(p, outcome) ==
    IF ~dom.overlay
    THEN /\ CompleteInit(p, outcome)
         /\ UNCHANGED <<imgIdx, loadedImages, imageCache>>
    ELSE LET r == CountUntilImage(p.tracks, 1, 0) IN
         /\ loadedImages' = r.loaded
         /\ UNCHANGED imageCache
         /\ IF r.idx > Len(p.tracks)
            THEN CompleteInit(p, outcome) /\ imgIdx' = 0
            ELSE /\ Store(p, "loadTracks", NoArg)
                 /\ imgIdx' = r.idx
                 /\ pc' = "image"
                 /\ UNCHANGED listeners

ConnectOutcomes == {"noContext", "noTap", "suspended", "running"}

\* The outcomes connectAudio can have in the next handler: it is only ever
\* attempted while there is a visualizer without an audio context.
Outcomes(trs) ==
    IF dom.visualizer = "ok" /\ visualizer.audioContext = "null"
       /\ \E i \in 1..Len(trs) : trs[i].audio # Null
    THEN ConnectOutcomes ELSE {"running"}

InitIn(doms, manifests) ==
    /\ dom \in doms
    /\ server \in manifests
    /\ pc = "fetch"
    /\ fetch = "pending"
    /\ imgIdx = 0
    /\ loadedImages = 0
    /\ listeners = [ended |-> 0, input |-> FALSE, isDragging |-> FALSE]
    /\ tracks = << >>
    /\ currentTrackIndex = 0
    /\ isPlaying = FALSE
    /\ preloadCache = << >>
    /\ imageCache = {}
    /\ audio = MediaLoad(Null, Null)
    /\ visualizer = NoVisualizer
    /\ ui = [title |-> Null, theme |-> Null]
    /\ last = Event("constructor")
    /\ watcher = [inputs |-> {}, outputs |-> {}, events |-> << >>,
                  conversions |-> << >>, ops |-> 0]

\* loadTracks: fetch and parse succeeded
FetchResolved ==
    /\ pc = "fetch"
    /\ fetch' = "ok"
    /\ \E o \in Outcomes(server) :
          AfterLoadTracks([Player EXCEPT !.tracks = server], o)
    /\ UNCHANGED <<dom, server, watcher>>

\* loadTracks: fetch or parse threw; the catch logs and tracks stays []
FetchFailed ==
    /\ pc = "fetch"
    /\ fetch' = "failed"
    /\ AfterLoadTracks(Player, "running")
    /\ UNCHANGED <<dom, server, watcher>>

\* img.onload / img.onerror of the image in flight, then the rest of init()
ImageSettled(ok, outcome) ==
    /\ pc = "image"
    /\ LET r == CountUntilImage(tracks, imgIdx + 1, loadedImages + 1) IN
       /\ imageCache' = IF ok THEN imageCache \cup {tracks[imgIdx].image}
                        ELSE imageCache
       /\ loadedImages' = r.loaded
       /\ IF r.idx > Len(tracks)
          THEN CompleteInit(Player, outcome) /\ imgIdx' = 0
          ELSE /\ Store(Player, IF ok THEN "imageLoad" ELSE "imageError", NoArg)
               /\ imgIdx' = r.idx
               /\ UNCHANGED <<pc, listeners>>
    /\ UNCHANGED <<dom, server, fetch, watcher>>

ImageLoaded == \E o \in Outcomes(tracks) : ImageSettled(TRUE, o)

ImageFailed == \E o \in Outcomes(tracks) : ImageSettled(FALSE, o)

startupVars ==
    <<dom, server, pc, fetch, imgIdx, loadedImages, listeners, imageCache,
      watcher>>

\* ----------------------------------------------------- input and API calls
\* play button click, Space key
TogglePlayPause ==
    /\ listeners.input
    /\ Store(togglePlayPause(Player), "togglePlayPause", NoArg)
    /\ UNCHANGED startupVars

\* next button click, ArrowRight key
NextTrack ==
    /\ listeners.input
    /\ \E o \in Outcomes(tracks) : Store(nextTrack(Player, o), "nextTrack", NoArg)
    /\ UNCHANGED startupVars

\* previous button click, ArrowLeft key
PreviousTrack ==
    /\ listeners.input
    /\ \E o \in Outcomes(tracks) : Store(previousTrack(Player, o), "previousTrack", NoArg)
    /\ UNCHANGED startupVars

SeekPercents == {0, 50}

\* pointer down or drag on the progress track
Seek ==
    /\ listeners.input
    /\ \E percent \in SeekPercents : Store(seek(Player, percent), "seek", NoArg)
    /\ UNCHANGED startupVars

\* window.player.loadTrack(index, autoplay), any integer index
LoadTrack ==
    /\ pc = "done"
    /\ \E index \in -1..(MaxTracks + 1), autoplay \in BOOLEAN, o \in Outcomes(tracks) :
          Store(loadTrack(Player, index, autoplay, o), "loadTrack", index)
    /\ UNCHANGED startupVars

\* window.player.play()
Play ==
    /\ pc = "done"
    /\ Store(play(Player), "play", NoArg)
    /\ UNCHANGED startupVars

\* window.player.pause()
Pause ==
    /\ pc = "done"
    /\ Store(pause(Player), "pause", NoArg)
    /\ UNCHANGED startupVars

\* ------------------------------------------------------------ media events
\* 'loadedmetadata': the duration becomes known
LoadedMetadata ==
    /\ Playable(audio.src)
    /\ ~audio.readyMeta
    /\ audio' = [audio EXCEPT !.readyMeta = TRUE]
    /\ last' = Event("loadedmetadata")
    /\ UNCHANGED <<startupVars, tracks, currentTrackIndex, isPlaying,
                   preloadCache, visualizer, ui>>

\* Playback reaches the end of the media: the device stops and queues
\* 'ended'.  A queued media event is dispatched before playback can run to
\* the end again, hence the guard on the queue.
DeviceEnded ==
    /\ audio.advancing
    /\ audio.readyMeta
    /\ audio.endedQueued = 0
    /\ audio' = [audio EXCEPT !.advancing = FALSE,
                              !.currentTime = DurationOf(audio.src),
                              !.endedQueued = @ + 1]
    /\ last' = Event("deviceEnded")
    /\ UNCHANGED <<startupVars, tracks, currentTrackIndex, isPlaying,
                   preloadCache, visualizer, ui>>

\* The 'ended' listeners of the element, each calling nextTrack()
RECURSIVE CallEndedListeners(_, _, _)
CallEndedListeners(p, k, outcome) ==
    IF k = 0 THEN p
    ELSE CallEndedListeners(nextTrack(p, outcome), k - 1, outcome)

Ended ==
    /\ audio.endedQueued > 0
    /\ \E o \in Outcomes(tracks) :
         LET p0 == [Player EXCEPT !.audio.endedQueued = @ - 1]
             p1 == CallEndedListeners(p0, listeners.ended, o)
         IN Store(p1, "ended", NoArg)
    /\ UNCHANGED startupVars

\* audioContext.resume() settles: the graph runs
ResumeResolved ==
    /\ visualizer.resumePending
    /\ visualizer' = [visualizer EXCEPT !.resumePending = FALSE,
                                        !.audioContext = "running"]
    /\ last' = Event("resumed")
    /\ UNCHANGED <<startupVars, tracks, currentTrackIndex, isPlaying,
                   preloadCache, audio, ui>>

\* ------------------------------------------------------- visualizer calls
playerVars == <<tracks, currentTrackIndex, isPlaying, preloadCache, audio, ui>>

\* The handler starts with nothing drawn and nothing pushed
Fresh(v) == [v EXCEPT !.draws = 0, !.pushes = 0]

\* window.player.visualizer.show(); the queue is capped at MaxPending
Show ==
    /\ visualizer.exists
    /\ dom.visualizer = "ok"
    /\ visualizer.pending < MaxPending
    /\ visualizer.ticks < MaxTicks
    /\ visualizer' = show(Fresh(visualizer))
    /\ last' = Event("show")
    /\ UNCHANGED <<startupVars, playerVars>>

\* window.player.visualizer.hide()
Hide ==
    /\ visualizer.exists
    /\ dom.visualizer = "ok"
    /\ visualizer' = hide(Fresh(visualizer))
    /\ last' = Event("hide")
    /\ UNCHANGED <<startupVars, playerVars>>

\* window.player.visualizer.toggle()
Toggle ==
    /\ visualizer.exists
    /\ dom.visualizer = "ok"
    /\ visualizer.isActive
          \/ (visualizer.pending < MaxPending /\ visualizer.ticks < MaxTicks)
    /\ visualizer' = toggle(Fresh(visualizer))
    /\ last' = Event("toggle")
    /\ UNCHANGED <<startupVars, playerVars>>

\* window.player.visualizer.dispose()
Dispose ==
    /\ visualizer.exists
    /\ dom.visualizer = "ok"
    /\ visualizer' = dispose(Fresh(visualizer))
    /\ last' = Event("dispose")
    /\ UNCHANGED <<startupVars, playerVars>>

\* The k callbacks that were in the queue when the frame began, in order
RECURSIVE RunCallbacks(_, _)
RunCallbacks(v, k) == IF k = 0 THEN v ELSE RunCallbacks(animate(v), k - 1)

\* One animation frame: the browser empties the queue and runs every
\* callback that was in it; what they request runs in the next frame.
Frame ==
    /\ visualizer.exists
    /\ dom.visualizer = "ok"
    /\ visualizer.pending > 0
    /\ visualizer.ticks + visualizer.pending <= MaxTicks
    /\ LET v0 == [Fresh(visualizer) EXCEPT
                    !.pending = 0,
                    !.animationId = IF @ = "pending" THEN "stale" ELSE @]
       IN visualizer' = RunCallbacks(v0, visualizer.pending)
    /\ last' = Event("frame")
    /\ UNCHANGED <<startupVars, playerVars>>

\* ------------------------------------------------- progress track, errors
\* getBoundingClientRect() of the progress track, in pixels
ProgressRect == [left |-> 100, width |-> 200]

\* clientX of a pointer event: left of the track, on it, right of it
PointerXs == {0, 100, 150, 200, 250, 300, 400}

InsideTrack(x) ==
    x >= ProgressRect.left /\ x <= ProgressRect.left + ProgressRect.width

Max(a, b) == IF a > b THEN a ELSE b

\* The percentage without the clamp
PointerPercentRaw(x) ==
    ((x - ProgressRect.left) * 100) \div ProgressRect.width

\* Math.max(0, Math.min(100, ((clientX - rect.left) / rect.width) * 100))
PointerPercent(x) ==
    Max(0, Min(100, ((x - ProgressRect.left) * 100) \div ProgressRect.width))

\* What last.arg holds after a pointer handler that issued no seek
NoSeek == -1

otherStartupVars ==
    <<dom, server, pc, fetch, imgIdx, loadedImages, imageCache, watcher>>

\* mousedown / touchstart on the progress track: the drag starts, and the
\* closure updateProgress seeks to the pointer
PointerDown ==
    /\ listeners.input
    /\ \E x \in {y \in PointerXs : InsideTrack(y)} :
          Store(seek(Player, PointerPercent(x)), "pointerDown", PointerPercent(x))
    /\ listeners' = [listeners EXCEPT !.isDragging = TRUE]
    /\ UNCHANGED otherStartupVars

\* mousemove / touchmove anywhere on the document
PointerMove ==
    /\ listeners.input
    /\ \E x \in PointerXs :
          IF listeners.isDragging
          THEN Store(seek(Player, PointerPercent(x)), "pointerMove",
                     PointerPercent(x))
          ELSE Store(Player, "pointerMove", NoSeek)
    /\ UNCHANGED <<listeners, otherStartupVars>>

\* mouseup / touchend anywhere on the document: the drag is over
PointerUp ==
    /\ listeners.input
    /\ Store(Player, "pointerUp", NoSeek)
    /\ listeners' = [listeners EXCEPT !.isDragging = FALSE]
    /\ UNCHANGED otherStartupVars

\* An 'error' listener that marks the engine paused
onAudioErrorPause(p) == pause(p)

\* The 'error' listener: it logs, and reads the current track to tell a
\* track without audio from a failure
onAudioError(p) ==
    IF p.currentTrackIndex = NaN \/ p.currentTrackIndex >= Len(p.tracks)
    THEN [p EXCEPT !.threw = TRUE]
    ELSE p

\* The media element fails to fetch or decode what its src names (always so
\* for the empty src of a track without audio): the device stops and the
\* 'error' listener runs
AudioError ==
    /\ listeners.ended > 0
    /\ audio.src # Null
    /\ Store(onAudioError([Player EXCEPT !.audio.advancing = FALSE]),
             "error", NoArg)
    /\ UNCHANGED startupVars

\* ------------------------------------------------------- the music watcher
\* Base names of the .mp3 files of src/music; file x converts to x.opus
Files == 1..MaxFiles

RemoveAt(seq, i) == SubSeq(seq, 1, i - 1) \o SubSeq(seq, i + 1, Len(seq))

\* processFile up to its await: statSync of the input throws when the file
\* is gone (caught and logged); otherwise ffmpeg is started on it
processFile(w, x) ==
    IF x \notin w.inputs THEN w
    ELSE [w EXCEPT !.conversions = Append(@, [file |-> x, stage |-> "spawned"])]

\* The 'unlink' handler: the output is removed if it exists
onUnlink(w, x) == [w EXCEPT !.outputs = @ \ {x}]

Queue(w, type, x) ==
    [w EXCEPT !.events = Append(@, [type |-> type, file |-> x]),
              !.ops = @ + 1]

Dequeue(w) == [w EXCEPT !.events = Tail(@)]

browserVars ==
    <<dom, server, pc, fetch, imgIdx, loadedImages, listeners, imageCache,
      tracks, currentTrackIndex, isPlaying, preloadCache, audio, visualizer,
      ui, last>>

\* Someone puts x.mp3 into src/music; chokidar will report 'add'
CreateMp3 ==
    /\ watcher.ops < MaxFileOps
    /\ \E x \in Files \ watcher.inputs :
          watcher' = Queue([watcher EXCEPT !.inputs = @ \cup {x}], "add", x)
    /\ UNCHANGED browserVars

\* Someone rewrites x.mp3; chokidar will report 'change'
ModifyMp3 ==
    /\ watcher.ops < MaxFileOps
    /\ \E x \in watcher.inputs : watcher' = Queue(watcher, "change", x)
    /\ UNCHANGED browserVars

\* Someone deletes x.mp3; chokidar will report 'unlink'
RemoveMp3 ==
    /\ watcher.ops < MaxFileOps
    /\ \E x \in watcher.inputs :
          watcher' = Queue([watcher EXCEPT !.inputs = @ \ {x}], "unlink", x)
    /\ UNCHANGED browserVars

\* .on('add'): processFile is called and not awaited
OnAdd ==
    /\ watcher.events # << >>
    /\ Head(watcher.events).type = "add"
    /\ watcher' = processFile(Dequeue(watcher), Head(watcher.events).file)
    /\ UNCHANGED browserVars

\* .on('change'): processFile is called and not awaited
OnChange ==
    /\ watcher.events # << >>
    /\ Head(watcher.events).type = "change"
    /\ watcher' = processFile(Dequeue(watcher), Head(watcher.events).file)
    /\ UNCHANGED browserVars

\* .on('unlink')
OnUnlink ==
    /\ watcher.events # << >>
    /\ Head(watcher.events).type = "unlink"
    /\ watcher' = onUnlink(Dequeue(watcher), Head(watcher.events).file)
    /\ UNCHANGED browserVars

\* convertToOpus, the ffmpeg process opens its input: a missing file ends
\* the run with 'error' (the promise rejects, processFile catches and logs);
\* an open file stays readable after it is deleted
FfmpegOpenInput ==
    /\ \E i \in 1..Len(watcher.conversions) :
          /\ watcher.conversions[i].stage = "spawned"
          /\ watcher' =
                IF watcher.conversions[i].file \in watcher.inputs
                THEN [watcher EXCEPT !.conversions[i].stage = "reading"]
                ELSE [watcher EXCEPT !.conversions = RemoveAt(@, i)]
    /\ UNCHANGED browserVars

\* convertToOpus, the ffmpeg process creates or truncates its output file
FfmpegOpenOutput ==
    /\ \E i \in 1..Len(watcher.conversions) :
          /\ watcher.conversions[i].stage = "reading"
          /\ watcher' =
                [watcher EXCEPT !.conversions[i].stage = "writing",
                                !.outputs = @ \cup {watcher.conversions[i].file}]
    /\ UNCHANGED browserVars

\* convertToOpus 'end': the promise resolves and processFile runs to its end
\* (statSync of an output deleted meanwhile throws; caught and logged)
FfmpegEnd ==
    /\ \E i \in 1..Len(watcher.conversions) :
          /\ watcher.conversions[i].stage = "writing"
          /\ watcher' = [watcher EXCEPT !.conversions = RemoveAt(@, i)]
    /\ UNCHANGED browserVars

\* ---------------------------------------------------------- specifications
Doms == [overlay : BOOLEAN, visualizer : {"noScript", "noCanvas", "ok"}]

\* Startup: every page, every manifest of up to MaxStartupTracks tracks
StartupNext ==
    \/ FetchResolved
    \/ FetchFailed
    \/ ImageLoaded
    \/ ImageFailed

InitStartup == InitIn(Doms, Manifests(MaxStartupTracks, MaxStartupTracks))

SpecStartup == InitStartup /\ [][StartupNext]_vars

\* The session, on a page with the loading overlay: playlists of up to
\* MaxTracks tracks on a page without the visualizer script, and playlists of
\* up to MaxVisTracks tracks, the first with or without a cover image, on a
\* page with it.
Init ==
    \/ InitIn({d \in Doms : d.overlay /\ d.visualizer = "noScript"},
              Manifests(MaxTracks, 0))
    \/ InitIn({d \in Doms : d.overlay /\ d.visualizer # "noScript"},
              Manifests(MaxVisTracks, 1))

Next ==
    \/ FetchResolved
    \/ FetchFailed
    \/ ImageLoaded
    \/ ImageFailed
    \/ TogglePlayPause
    \/ NextTrack
    \/ PreviousTrack
    \/ Seek
    \/ LoadTrack
    \/ Play
    \/ Pause
    \/ LoadedMetadata
    \/ DeviceEnded
    \/ Ended
    \/ ResumeResolved

Spec == Init /\ [][Next]_vars

\* The render loop: a page with overlay and canvas, a manifest of up to
\* MaxRenderTracks tracks without cover images, the visualizer's calls and
\* the animation frames; nextTrack() reloads the track and with it retries
\* the connection of the audio graph.
InitVisualizer ==
    InitIn({d \in Doms : d.overlay /\ d.visualizer = "ok"},
           Manifests(MaxRenderTracks, 0))

VisualizerNext ==
    \/ FetchResolved
    \/ FetchFailed
    \/ NextTrack
    \/ Show
    \/ Hide
    \/ Toggle
    \/ Dispose
    \/ Frame

SpecVisualizer == InitVisualizer /\ [][VisualizerNext]_vars

\* The progress track and the audio device: a page without the visualizer
\* script, a manifest of up to MaxDeviceTracks tracks without cover images,
\* pointer input on and around the progress track, play and pause, track
\* changes, and the device's metadata and error events.
InitDevice ==
    InitIn({d \in Doms : d.overlay /\ d.visualizer = "noScript"},
           Manifests(MaxDeviceTracks, 0))

DeviceNext ==
    \/ FetchResolved
    \/ FetchFailed
    \/ TogglePlayPause
    \/ NextTrack
    \/ LoadedMetadata
    \/ PointerDown
    \/ PointerMove
    \/ PointerUp
    \/ AudioError

SpecDevice == InitDevice /\ [][DeviceNext]_vars

\* The music watcher, a process of its own: up to MaxFiles .mp3 files are
\* created, rewritten and deleted in src/music, MaxFileOps times in all,
\* while the watcher delivers its events in order and every conversion it
\* started runs at its own pace.  No page is open.
InitWatcher ==
    InitIn({[overlay |-> TRUE, visualizer |-> "noScript"]}, {<< >>})

WatcherNext ==
    \/ CreateMp3
    \/ ModifyMp3
    \/ RemoveMp3
    \/ OnAdd
    \/ OnChange
    \/ OnUnlink
    \/ FfmpegOpenInput
    \/ FfmpegOpenOutput
    \/ FfmpegEnd

SpecWatcher == InitWatcher /\ [][WatcherNext]_vars

\* ------------------------------------------------------------------ claims
RECURSIVE NextTimes(_, _, _)
NextTimes(p, k, o) == IF k = 0 THEN p ELSE NextTimes(nextTrack(p, o), k - 1, o)

RECURSIVE PreviousTimes(_, _, _)
PreviousTimes(p, k, o) ==
    IF k = 0 THEN p ELSE PreviousTimes(previousTrack(p, o), k - 1, o)

HasAudio(i) == tracks[i + 1].audio # Null

TransportOps == {"nextTrack", "previousTrack"}

\* C1: with N >= 1 tracks, from any index, one nextTrack() moves the index
\* to (i + 1) mod N and one previousTrack() to (i - 1) mod N, and N
\* consecutive calls of either return to the index they started from.
C1_Cyclic ==
    Len(tracks) >= 1 =>
        \A o \in ConnectOutcomes :
            LET n == Len(tracks) IN
            /\ nextTrack(Player, o).currentTrackIndex = (currentTrackIndex + 1) % n
            /\ previousTrack(Player, o).currentTrackIndex
                   = (currentTrackIndex + n - 1) % n
            /\ NextTimes(Player, n, o).currentTrackIndex = currentTrackIndex
            /\ PreviousTimes(Player, n, o).currentTrackIndex = currentTrackIndex

\* C1 witness: a nextTrack() from the last index has wrapped to 0
C1_Witness ==
    /\ last.op = "nextTrack"
    /\ Len(tracks) >= 3
    /\ currentTrackIndex = 0

\* C2: a loadTrack step whose index is below 0 or not below the track count
\* changes nothing: index, playing flag, audio element, title and theme,
\* preload cache, whatever the autoplay hint.
C2_OutOfRangeNoOp ==
    [][(last'.op = "loadTrack"
          /\ (last'.arg < 0 \/ last'.arg >= Len(tracks)))
       => UNCHANGED <<tracks, currentTrackIndex, isPlaying, audio, ui,
                      preloadCache, visualizer, imageCache>>]_vars

\* C2 witness: loadTrack was called past the end while the engine was playing
C2_Witness ==
    /\ last.op = "loadTrack"
    /\ Len(tracks) >= 1
    /\ last.arg >= Len(tracks)
    /\ isPlaying

\* C3 as claimed: nextTrack() and previousTrack() leave isPlaying as it was,
\* on every manifest.
C3_Original ==
    [][last'.op \in TransportOps => isPlaying' = isPlaying]_vars

\* C3 amended: on a manifest with at least one track, after nextTrack() or
\* previousTrack() the engine is playing exactly when it was playing before
\* and the track it moved to has an audio reference.
C3_Amended ==
    [][(last'.op \in TransportOps /\ Len(tracks) >= 1)
       => isPlaying' = (isPlaying /\ HasAudio(currentTrackIndex)')]_vars

\* C3 witness: a transport step arrived playing at another track
C3_Witness ==
    /\ last.op \in TransportOps
    /\ Len(tracks) >= 2
    /\ isPlaying
    /\ audio.advancing

\* C4 as claimed: while isPlaying is true the audio context, when there is
\* one, is running.
C4_Original ==
    isPlaying => visualizer.audioContext \in {"null", "running"}

\* C5: the preload cache never holds more than 3 entries.
C5_CacheBound == Len(preloadCache) <= 3

\* C5 witness: the cache is full and the track preloaded first at startup
\* (index 1) has been evicted since
C5_Witness ==
    /\ Len(tracks) >= 4
    /\ Len(preloadCache) = 3
    /\ HasAudio(1)
    /\ ~InCache(preloadCache, tracks[2].audio)

\* What a cache holds after the keys ins were inserted in order, first in
\* first out with room for three
FifoAfter(cache, ins) ==
    LET all == cache \o ins
    IN IF Len(all) > 3 THEN SubSeq(all, Len(all) - 2, Len(all)) ELSE all

\* C6: every change of the preload cache is a first-in-first-out insertion:
\* the new keys are appended and, past 3 entries, the entries inserted
\* earliest are removed, one per insertion, whichever track is current; and
\* four insertions u1..u4 into an empty cache leave u2, u3, u4.
C6_Fifo ==
    [][/\ preloadCache' # preloadCache
          => \E k \in 1..2 : \E ins \in [1..k -> 1..(MaxTracks + 1)] :
                 preloadCache' = FifoAfter(preloadCache, ins)
       /\ (Len(tracks) >= 4 /\ \A i \in 0..3 : HasAudio(i))
          => LET p0 == [Player EXCEPT !.preloadCache = << >>]
                 p4 == preloadTrack(preloadTrack(preloadTrack(
                           preloadTrack(p0, 0), 1), 2), 3)
             IN p4.preloadCache = <<tracks[2].audio, tracks[3].audio,
                                    tracks[4].audio>>]_vars

\* C6 witness: loadTrack bound the current track from its cache entry and
\* the same call evicted that entry
C6_Witness ==
    /\ last.hit
    /\ Len(preloadCache) = 3
    /\ HasAudio(currentTrackIndex)
    /\ ~InCache(preloadCache, tracks[currentTrackIndex + 1].audio)

CommandOps ==
    {"play", "pause", "togglePlayPause", "nextTrack", "previousTrack", "seek"}

\* C7 as claimed: once the manifest failed to load there are no tracks, no
\* transport command throws, and the index and the playing flag stay as
\* constructed.
C7_Original ==
    fetch = "failed"
        => /\ Len(tracks) = 0
           /\ last.op \in CommandOps => ~last.threw
           /\ currentTrackIndex = 0
           /\ ~isPlaying

TrackLoaded == ui.title # Null \/ audio.src # Null

Interactive == listeners.input \/ listeners.ended > 0 \/ TrackLoaded

C9_Original ==
    [][last'.op = "ended"
       => /\ currentTrackIndex' = (currentTrackIndex + 1) % Len(tracks)
          /\ (currentTrackIndex = Len(tracks) - 1 /\ isPlaying)
             => (currentTrackIndex' = 0 /\ isPlaying')]_vars

\* C9 amended: an 'ended' signal at index i moves to (i + 1) mod N, and at
\* the last index of a playing engine it ends at track 0, playing it exactly
\* when track 0 has an audio reference.
C9_Amended ==
    [][last'.op = "ended"
       => /\ currentTrackIndex' = (currentTrackIndex + 1) % Len(tracks)
          /\ (currentTrackIndex = Len(tracks) - 1 /\ isPlaying)
             => (currentTrackIndex' = 0 /\ isPlaying' = HasAudio(0))]_vars

\* C9 witness: 'ended' at the last index wrapped to track 0, which plays
C9_Witness ==
    /\ last.op = "ended"
    /\ Len(tracks) >= 2
    /\ currentTrackIndex = 0
    /\ isPlaying
    /\ audio.advancing

\* C10: one 'ended' signal is one nextTrack() call and one position; at most
\* one signal is queued, and when its handler is done none is queued and
\* whatever plays is the new track, from its start.
C10_OneAdvance ==
    [][/\ audio.endedQueued <= 1
       /\ last'.op = "ended"
          => /\ last'.calls = 1
             /\ currentTrackIndex' = (currentTrackIndex + 1) % Len(tracks)
             /\ audio'.endedQueued = 0
             /\ audio'.currentTime = 0
             /\ audio'.advancing
                => audio'.src = ResolveUrl(tracks[currentTrackIndex' + 1].audio)]_vars

\* C10 witness: an auto-advance on a playlist of three or more is playing
C10_Witness ==
    /\ last.op = "ended"
    /\ Len(tracks) >= 3
    /\ audio.advancing

ValidIndexes == 0..(Len(tracks) - 1)

\* C11: from every state, loadTrack(i, hint) with a valid index i ends with
\* the index at i, the earlier playback halted and the position back at 0;
\* on a track with audio the source is that track's file and the engine
\* plays exactly when the hint is set; on a track without audio there is no
\* playable source and the engine does not play, whatever the hint.
C11_LoadTrackResult ==
    \A i \in ValidIndexes : \A hint \in BOOLEAN : \A o \in ConnectOutcomes :
        LET q == loadTrack(Player, i, hint, o) IN
        /\ q.currentTrackIndex = i
        /\ ~q.threw
        /\ q.isPlaying = (hint /\ HasAudio(i))
        /\ q.audio.advancing = (hint /\ HasAudio(i))
        /\ q.audio.currentTime = 0
        /\ q.audio.endedQueued = 0
        /\ IF HasAudio(i)
           THEN q.audio.src = ResolveUrl(tracks[i + 1].audio)
           ELSE ~Playable(q.audio.src)

\* C11 witness: loadTrack with the hint set moved a playlist of two or more
\* to another track, which plays
C11_Witness ==
    /\ last.op = "loadTrack"
    /\ Len(tracks) >= 2
    /\ last.arg = currentTrackIndex
    /\ currentTrackIndex >= 1
    /\ isPlaying
    /\ audio.advancing

\* C12: pause() leaves isPlaying false and the device halted, from every
\* state; the device of an engine that is not playing stays halted until a
\* handler that issues play, and it never advances while isPlaying is false.
C12_PauseHalts ==
    [][/\ last'.op = "pause" => (~isPlaying' /\ ~audio'.advancing)
       /\ (~isPlaying /\ audio'.advancing)
             => last'.op \in {"play", "togglePlayPause", "loadTrack"}
       /\ audio'.advancing => isPlaying']_vars

\* C12 witness: pause() halted a track that was sought to its middle
C12_Witness ==
    /\ last.op = "pause"
    /\ Playable(audio.src)
    /\ audio.currentTime = 100
    /\ ~isPlaying
    /\ ~audio.advancing

\* C13 as claimed: play() with no playable source bound (no track, or a
\* current track without audio reference) changes nothing.
C13_Original ==
    [][(last'.op = "play" /\ ~Playable(audio.src))
       => UNCHANGED <<tracks, currentTrackIndex, isPlaying, audio, ui,
                      preloadCache, visualizer>>]_vars

\* C14: from every state, seek(p) with the duration known sets the position
\* to p/100 of the duration (100 s for seek(50) on 200 s) and with the
\* duration unknown leaves the position alone; either way nothing else of
\* the engine changes.
C14_Seek ==
    \A percent \in {0, 25, 50, 75, 100} :
        LET q == seek(Player, percent) IN
        /\ q = [Player EXCEPT !.audio.currentTime = q.audio.currentTime]
        /\ IF audio.readyMeta
           THEN /\ q.audio.currentTime * 100 = percent * DurationOf(audio.src)
                /\ (percent = 50 /\ DurationOf(audio.src) = 200)
                       => q.audio.currentTime = 100
           ELSE q.audio.currentTime = audio.currentTime

\* C14 witness: a seek moved a playing track to 100 s
C14_Witness ==
    /\ last.op = "seek"
    /\ audio.readyMeta
    /\ audio.currentTime = 100
    /\ isPlaying

\* C15: with one track or more the current index is a valid index, in every
\* reachable state.
C15_IndexValid ==
    Len(tracks) >= 1 => currentTrackIndex \in ValidIndexes

\* C15 witness: loadTrack was called with an index past the end while the
\* last track of three or more was current
C15_Witness ==
    /\ last.op = "loadTrack"
    /\ Len(tracks) >= 3
    /\ last.arg >= Len(tracks)
    /\ currentTrackIndex = Len(tracks) - 1

\* C16: when init() has run to its end on a manifest of one track or more,
\* the index is 0, the title slot shows track 0, the engine is not playing,
\* and the bound source is track 0's audio when it has one (no playable
\* source otherwise).
C16_ReadyZero ==
    (pc = "done" /\ last.op = "init" /\ Len(tracks) >= 1)
        => /\ currentTrackIndex = 0
           /\ ui.title = tracks[1].id
           /\ ~isPlaying
           /\ ~audio.advancing
           /\ IF HasAudio(0)
              THEN audio.src = ResolveUrl(tracks[1].audio)
              ELSE ~Playable(audio.src)

\* C16 witness: startup completed after a cover image was loaded, on a page
\* with the visualizer and a first track that has audio
C16_Witness ==
    /\ pc = "done"
    /\ last.op = "init"
    /\ Len(tracks) >= 2
    /\ HasAudio(0)
    /\ dom.visualizer = "ok"
    /\ imageCache # {}

\* C17 as claimed: at most one animation callback is pending at any time,
\* and a frame draws at most once and pushes at most one entry to the
\* history, whatever the sequence of show, hide, toggle, dispose and frames.
C17_Original ==
    /\ visualizer.pending <= 1
    /\ last.op = "frame" => (visualizer.draws <= 1 /\ visualizer.pushes <= 1)

Hidden(v) == v.exists /\ ~v.isActive

\* C18: hide() (also through toggle()) deactivates the loop and clears the
\* surface; while the visualizer is hidden every handler but show() and
\* toggle() leaves it hidden and the surface cleared, draws nothing, pushes
\* nothing and requests no callback, and a frame delivered then empties the queue.
C18_HideStops ==
    [][/\ (last'.op = "hide" \/ (last'.op = "toggle" /\ visualizer.isActive))
          => (Hidden(visualizer') /\ visualizer'.surface = "cleared")
       /\ (Hidden(visualizer) /\ last'.op \notin {"show", "toggle"})
          => /\ Hidden(visualizer')
             /\ visualizer'.surface = "cleared"
             /\ visualizer'.draws = 0
             /\ visualizer'.waveformHistory = visualizer.waveformHistory
             /\ visualizer'.pending <= visualizer.pending
       /\ (Hidden(visualizer) /\ last'.op = "frame")
          => visualizer'.pending = 0]_vars

\* C18 witness: a callback was delivered to a hidden visualizer that has an
\* audio tap and a history
C18_Witness ==
    /\ last.op = "frame"
    /\ Hidden(visualizer)
    /\ visualizer.taps >= 1
    /\ visualizer.waveformHistory # << >>

\* C19 as claimed: after dispose() no callback is pending and the surface is
\* cleared, from every state of the visualizer.
C19_Original ==
    [][last'.op = "dispose"
       => (visualizer'.pending = 0 /\ visualizer'.surface = "cleared")]_vars

Tapped(v) == v.taps >= 1

ShowOps(v) == IF v.isActive THEN {"show"} ELSE {"show", "toggle"}

\* C20: every callback of a frame of an active visualizer, and the tick that
\* show() runs, draws one waveform: the idle pulse when no tap was
\* established, the pulse line otherwise; an idle tick leaves the history as
\* it was, an audio-driven tick pushes one entry; and once the history holds
\* an entry the surface never shows the idle pulse again.
C20_TickDraws ==
    [][/\ (last'.op = "frame" /\ visualizer.isActive)
          => /\ visualizer'.draws = visualizer.pending
             /\ visualizer'.surface
                    = IF Tapped(visualizer) THEN "pulse" ELSE "idle"
       /\ last'.op \in ShowOps(visualizer)
          => /\ visualizer'.draws = 1
             /\ visualizer'.surface
                    = IF Tapped(visualizer) THEN "pulse" ELSE "idle"
       /\ (last'.op \in {"frame", "show", "toggle"})
          => /\ visualizer'.pushes
                    = IF Tapped(visualizer) THEN visualizer'.draws ELSE 0
             /\ visualizer'.surface = "idle"
                    => visualizer'.waveformHistory = visualizer.waveformHistory
       /\ visualizer.waveformHistory # << >>
          => visualizer'.surface # "idle"]_vars

\* C20 witness: a frame drew the idle pulse on a visualizer whose audio
\* context and analyser exist but whose tap could not be created
C20_Witness ==
    /\ last.op = "frame"
    /\ visualizer.isActive
    /\ visualizer.surface = "idle"
    /\ visualizer.analyser
    /\ ~Tapped(visualizer)

\* The audio reference of the track next to index i (d = 1) or before it
\* (d = -1), by wrapped index
Neighbour(i, d) == tracks[((i + d + Len(tracks)) % Len(tracks)) + 1].audio

\* C21 as claimed: after a loadTrack with a valid index, the audio of the
\* wrapped next track and of the wrapped previous track, each when there is
\* one, are keys of the preload cache.
C21_Original ==
    [][(last'.op = "loadTrack" /\ last'.arg \in ValidIndexes)
       => /\ Neighbour(last'.arg, 1) # Null
                => InCache(preloadCache', Neighbour(last'.arg, 1))
          /\ Neighbour(last'.arg, -1) # Null
                => InCache(preloadCache', Neighbour(last'.arg, -1))]_vars

\* The insertion of the previous track pushes the next track out: the next
\* track's entry is the oldest of a full cache and the previous track has
\* audio that is not cached
NextEvicted(cache, nxt, prv) ==
    /\ Len(cache) = CacheCapacity
    /\ cache[1] = nxt
    /\ prv # Null
    /\ ~InCache(cache, prv)

\* C21 amended: after a loadTrack with a valid index the audio of the
\* wrapped previous track, when there is one, is a key of the preload cache;
\* the audio of the wrapped next track, when there is one, is a key unless
\* its entry was the oldest of a full cache and the previous track had to be
\* inserted, in which case first-in-first-out eviction has removed it.
C21_Amended ==
    [][(last'.op = "loadTrack" /\ last'.arg \in ValidIndexes)
       => LET nxt == Neighbour(last'.arg, 1)
              prv == Neighbour(last'.arg, -1)
          IN /\ prv # Null => InCache(preloadCache', prv)
             /\ nxt # Null
                   => (InCache(preloadCache', nxt)
                         <=> ~NextEvicted(preloadCache, nxt, prv))]_vars

\* C21 witness: a loadTrack has ended with the previous track cached and
\* the next track, which has audio, not cached
C21_Witness ==
    /\ last.op = "loadTrack"
    /\ last.arg \in ValidIndexes
    /\ last.arg = currentTrackIndex
    /\ Neighbour(currentTrackIndex, 1) # Null
    /\ ~InCache(preloadCache, Neighbour(currentTrackIndex, 1))
    /\ InCache(preloadCache, Neighbour(currentTrackIndex, -1))

LoadOps == {"init", "loadTrack", "nextTrack", "previousTrack", "ended"}

\* C22: the visualizer holds at most one tap of the audio element; a tap is
\* created only by a handler that loads a track, only while none exists, and
\* the track loaded then has an audio reference.
C22_TapOnce ==
    [][/\ visualizer.taps <= 1
       /\ visualizer'.taps <= 1
       /\ visualizer'.taps # visualizer.taps
          => /\ visualizer.taps = 0
             /\ visualizer'.taps = 1
             /\ last'.op \in LoadOps
             /\ currentTrackIndex' \in 0..(Len(tracks') - 1)
             /\ tracks'[currentTrackIndex' + 1].audio # Null]_vars

\* C22 witness: the tap exists on a playlist whose first track has no audio,
\* so it was not created at startup but by a later load
C22_Witness ==
    /\ visualizer.taps = 1
    /\ Len(tracks) = 2
    /\ ~HasAudio(0)
    /\ currentTrackIndex = 0

\* C23: cover images load one at a time in manifest order.  The processed
\* counter never falls and never passes the track count; a load of track k
\* is in flight only when exactly the k - 1 tracks before it were counted;
\* the track in flight only moves forward, and only by the load or error of
\* the image in flight; and when the overlay is dismissed (init() goes on)
\* the counter equals the track count and no load is in flight.
C23_Sequential ==
    [][/\ loadedImages' >= loadedImages
       /\ loadedImages' <= Len(tracks')
       /\ imgIdx' # 0
          => /\ tracks'[imgIdx'].image # Null
             /\ loadedImages' = imgIdx' - 1
       /\ (imgIdx # 0 /\ imgIdx' # imgIdx)
          => /\ last'.op \in {"imageLoad", "imageError", "init"}
             /\ imgIdx' = 0 \/ imgIdx' > imgIdx
             /\ loadedImages' > loadedImages
       /\ (dom.overlay /\ pc' \in {"done", "crashed"})
          => (loadedImages' = Len(tracks') /\ imgIdx' = 0)]_vars

\* C23 witness: the third track's image is in flight after one of the first
\* two images loaded and the other failed
C23_Witness ==
    /\ pc = "image"
    /\ imgIdx = 3
    /\ loadedImages = 2
    /\ tracks[1].image # Null
    /\ tracks[2].image # Null
    /\ Cardinality(imageCache) = 1

\* C24 as claimed: while an image load is unresolved the gate is closed, and
\* once the manifest fetch has completed with one track or more and no image
\* load is outstanding, the player is interactive with track 0 loaded.
C24_Original ==
    /\ pc = "image" => ~Interactive
    /\ (fetch = "ok" /\ Len(tracks) >= 1 /\ pc \notin {"fetch", "image"})
          => /\ listeners.input
             /\ listeners.ended > 0
             /\ currentTrackIndex = 0
             /\ ui.title = tracks[1].id

\* C25: the waveform history holds min(audio-driven ticks, 100) frames and
\* never more than 100, each of 32 samples, the most recent first (the frame
\* at position k was sampled by tick number ticks - k + 1); and the surface
\* of an audio-driven tick shows min(history length, 5) trail layers, the
\* k-th built from the k-th frame of the history.
C25_History ==
    LET h == visualizer.waveformHistory IN
    /\ Len(h) = Min(visualizer.ticks, 100)
    /\ Len(h) <= 100
    /\ \A k \in 1..Len(h) :
          /\ h[k].samples = 32
          /\ h[k].tick = visualizer.ticks - k + 1
    /\ visualizer.surface = "pulse"
          => /\ Len(visualizer.layers) = Min(Len(h), 5)
             /\ \A k \in 1..Len(visualizer.layers) :
                   visualizer.layers[k].tick = h[k].tick

\* C25 witness: more than 100 audio-driven ticks have run; the oldest frames
\* were dropped and a frame has just drawn five layers
C25_Witness ==
    /\ last.op = "frame"
    /\ visualizer.ticks > 100
    /\ Len(visualizer.waveformHistory) = 100
    /\ Len(visualizer.layers) = 5

TickOps(v) ==
    IF v.isActive THEN {"frame", "show"} ELSE {"show", "toggle"}

\* C26: once a track is loaded the palette stored in the visualizer is the
\* current track's, and every layer a tick draws is stroked with the palette
\* stored when the tick runs, whatever palette was stored when the layer's
\* frame was sampled.
C26_LatestTheme ==
    [][/\ (visualizer'.exists /\ pc' = "done" /\ Len(tracks') >= 1)
          => visualizer'.colors = tracks'[currentTrackIndex' + 1].id
       /\ last'.op \in TickOps(visualizer)
          => /\ visualizer'.colors = visualizer.colors
             /\ \A k \in 1..Len(visualizer'.layers) :
                   visualizer'.layers[k].theme = visualizer.colors]_vars

\* C26 witness: on a playlist of two tracks a frame drew two layers or more
\* with the second track's palette, and only the first of their frames was
\* sampled after nextTrack() had stored that palette
C26_Witness ==
    /\ last.op = "frame"
    /\ Len(tracks) = 2
    /\ currentTrackIndex = 1
    /\ visualizer.colors = tracks[2].id
    /\ visualizer.sinceTheme = 1
    /\ Len(visualizer.layers) >= 2
    /\ \A k \in 1..Len(visualizer.layers) :
          visualizer.layers[k].theme = tracks[2].id

Without(cache, key) == SelectSeq(cache, LAMBDA k : k # key)

PointerSeekOps == {"pointerDown", "pointerMove"}

\* C28: a seek issued by a pointer handler carries a percentage in 0..100
\* wherever the pointer is, and moves the position there when the duration
\* is known; the drag flag is set by a pointer-down on the track, cleared by
\* a pointer-up and changed by nothing else; a pointer-move seeks exactly
\* when the flag is set, and otherwise changes nothing.
C28_PointerSeek ==
    [][/\ (last'.op \in PointerSeekOps /\ last'.arg # NoSeek)
          => /\ last'.arg \in 0..100
             /\ audio.readyMeta
                   => audio'.currentTime * 100
                          = last'.arg * DurationOf(audio.src)
             /\ UNCHANGED <<currentTrackIndex, isPlaying>>
       /\ last'.op = "pointerDown"
          => (listeners'.isDragging /\ last'.arg # NoSeek)
       /\ last'.op = "pointerUp"
          => (~listeners'.isDragging /\ UNCHANGED <<audio, playerVars>>)
       /\ last'.op = "pointerMove"
          => /\ listeners'.isDragging = listeners.isDragging
             /\ (last'.arg # NoSeek) <=> listeners.isDragging
             /\ ~listeners.isDragging => UNCHANGED <<audio, playerVars>>
       /\ listeners'.isDragging # listeners.isDragging
          => last'.op \in {"pointerDown", "pointerUp"}]_vars

\* C28 witness: during a drag the pointer left the track on the right and
\* the seek went to 100 percent, the end of the media
C28_Witness ==
    /\ last.op = "pointerMove"
    /\ listeners.isDragging
    /\ last.arg = 100
    /\ audio.readyMeta
    /\ audio.currentTime = DurationOf(audio.src)

\* C29: the 'error' signal of the device leaves the tracks, the index, the
\* playing flag, the bound source, the position, the preload cache and the
\* slots as they were, and its handler does not throw; nothing is loaded
\* and nothing is retried.
C29_ErrorFrame ==
    [][last'.op = "error"
       => /\ UNCHANGED <<tracks, currentTrackIndex, isPlaying, preloadCache,
                         ui, visualizer, listeners>>
          /\ audio'.src = audio.src
          /\ audio'.currentTime = audio.currentTime
          /\ ~audio'.advancing
          /\ ~last'.threw
          /\ last'.calls = 0]_vars

\* C29 witness: the device failed on a playable source while the engine was
\* playing; the engine still says playing, on the same track
C29_Witness ==
    /\ last.op = "error"
    /\ isPlaying
    /\ Playable(audio.src)
    /\ Len(tracks) = 2
    /\ currentTrackIndex = 1

\* C30 as claimed: in every reachable state, a playing engine has a playable
\* source bound and its current track has an audio reference.
C30_Original ==
    isPlaying
        => /\ Playable(audio.src)
           /\ currentTrackIndex \in ValidIndexes
           /\ HasAudio(currentTrackIndex)

\* A handler that ran loadTrack on an existing track has just returned
AfterLoad ==
    /\ last.op \in LoadOps
    /\ ~last.threw
    /\ Len(tracks) > 0
    /\ currentTrackIndex \in ValidIndexes
    /\ last.op = "loadTrack" => last.arg \in ValidIndexes

\* C31 as claimed: in every state a loadTrack has left behind, one more
\* preloadAdjacentTracks() leaves the preload cache, contents and order, as
\* it is.
C31_Original ==
    AfterLoad => preloadAdjacentTracks(Player).preloadCache = preloadCache

\* C31 amended: at startup, where the cache is empty before loadTrack(0),
\* the preloadAdjacentTracks() that init() calls after it leaves the cache
\* as loadTrack(0) left it.  After any loadTrack, one more call changes the
\* cache exactly when the next track has audio and is not cached (first-in-
\* first-out eviction removed it while the previous track was inserted); it
\* then inserts the next track, the previous track stays cached, and a
\* further call changes nothing.
C31_Amended ==
    [][/\ (last'.op = "init" /\ pc' = "done" /\ Len(tracks') > 0)
          => preloadCache'
                = loadTrack([Player EXCEPT !.tracks = tracks'],
                            0, FALSE, "running").preloadCache
       /\ AfterLoad'
          => LET p1 == Player'
                 nxt == Neighbour(currentTrackIndex, 1)'
                 prv == Neighbour(currentTrackIndex, -1)'
                 p2 == preloadAdjacentTracks(p1)
                 p3 == preloadAdjacentTracks(p2)
             IN /\ p3.preloadCache = p2.preloadCache
                /\ (p2.preloadCache = p1.preloadCache)
                      <=> (nxt = Null \/ InCache(p1.preloadCache, nxt))
                /\ nxt # Null => InCache(p2.preloadCache, nxt)
                /\ prv # Null => InCache(p2.preloadCache, prv)]_vars

\* C31 witness: startup has run loadTrack(0) and then preloadAdjacentTracks()
\* on four tracks with audio; the cache holds the next and the previous
\* track, once each, in that order
C31_Witness ==
    /\ last.op = "init"
    /\ pc = "done"
    /\ Len(tracks) = 4
    /\ currentTrackIndex = 0
    /\ \A i \in 1..4 : tracks[i].audio # Null
    /\ preloadCache = <<tracks[2].audio, tracks[4].audio>>

\* C32 as claimed: on a page without the visualizer canvas, once the manifest
\* fetch and every image load have resolved, init() has ended without an
\* error leaving it, the audio and input listeners are attached, and track 0
\* of a manifest with tracks is loaded.
C32_Original ==
    (dom.visualizer = "noCanvas" /\ pc \notin {"fetch", "image"})
        => /\ pc = "done"
           /\ ~last.threw
           /\ listeners.ended > 0
           /\ listeners.input
           /\ Len(tracks) > 0
                 => (currentTrackIndex = 0 /\ ui.title = tracks[1].id)

\* Every event was delivered and every conversion started has finished
WatcherQuiet == watcher.events = << >> /\ watcher.conversions = << >>

\* C33 as claimed: once every event is handled and every started conversion
\* has finished, x.opus exists in the output directory only if x.mp3 exists
\* in the input directory.
C33_Original == WatcherQuiet => watcher.outputs \subseteq watcher.inputs

====
